---- MODULE Spec2Model ----
(***************************************************************************)
(* Model of the two OpenClaw operator tools:                               *)
(*   scripts/validate_openclaw_env.py   (the Env Validator)                *)
(*   scripts/plan_openclaw_rollout.py   (the Checklist Generator)          *)
(* Text is modelled as TLA+ strings and every string operation of the      *)
(* code (strip, split, lower, substring test, regex match, join, str) is   *)
(* computed character by character.                                        *)
(***************************************************************************)
EXTENDS Integers, Sequences, FiniteSets, TLC

VARIABLES
    tool,          \* which script this run is an invocation of
    pc,            \* position of main() in that script
    \* ---- validate_openclaw_env.py
    envExists,     \* env_path.exists()
    require,       \* args.require
    lines,         \* the lines of the env file enumerated so far by parse_env
    values,        \* parse_env: dict, as a sequence of <<key, value>> in insertion order
    duplicates,    \* parse_env: list of key names
    malformed,     \* parse_env: list of <<idx, raw_line>>
    missing,       \* main: list of required keys found missing
    placeholders,  \* main: list of keys whose value looks like a placeholder
    \* ---- plan_openclaw_rollout.py
    provider,      \* args.provider
    rawChannels,   \* args.channels
    environment,   \* args.environment
    channels,      \* result of parse_channels
    content,       \* result of render
    dirs,          \* directories created by this run
    files,         \* files written by this run, as records [path, text]
    \* ---- both
    out,           \* the sequence of print() calls made so far
    exitCode       \* value returned by main(), NoExit while it is running

envVars  == <<envExists, require, lines, values, duplicates, malformed, missing, placeholders>>
planVars == <<provider, rawChannels, environment, channels, content, dirs, files>>
vars     == <<tool, pc, envVars, planVars, out, exitCode>>

NoExit == -1

(***************************************************************************)
(* Bounds of the model.                                                    *)
(***************************************************************************)
MaxLines    == 4    \* lines of the env file
MaxRequire  == 1    \* occurrences of --require
MaxSegments == 3    \* comma-separated segments of --channels

-----------------------------------------------------------------------------
(***************************************************************************)
(* Python string primitives.                                               *)
(***************************************************************************)
Char(s, i) == SubSeq(s, i, i)

AsciiUpper  == "ABCDEFGHIJKLMNOPQRSTUVWXYZ"
AsciiLower  == "abcdefghijklmnopqrstuvwxyz"
AsciiDigits == "0123456789"
\* the characters a key may hold, in code point order
KeyCharOrder == AsciiDigits \o AsciiUpper \o "_" \o AsciiLower

CharsOf(s) == {Char(s, i) : i \in 1..Len(s)}

Whitespace == {" ", "\t"}

\* str.strip()
strip(s) ==
    LET keep == {i \in 1..Len(s) : Char(s, i) \notin Whitespace}
    IN  IF keep = {} THEN ""
        ELSE LET first == CHOOSE i \in keep : \A j \in keep : i <= j
                 last  == CHOOSE i \in keep : \A j \in keep : j <= i
             IN  SubSeq(s, first, last)

\* str.startswith(prefix)
startswith(s, prefix) ==
    /\ Len(prefix) <= Len(s)
    /\ SubSeq(s, 1, Len(prefix)) = prefix

\* sub in s
contains(s, sub) ==
    \E i \in 1..(Len(s) - Len(sub) + 1) : SubSeq(s, i, i + Len(sub) - 1) = sub

\* str.find(c) + 1 : position of the first occurrence of sep, 0 when absent
find(s, sep) ==
    LET at == {i \in 1..(Len(s) - Len(sep) + 1) : SubSeq(s, i, i + Len(sep) - 1) = sep}
    IN  IF at = {} THEN 0 ELSE CHOOSE i \in at : \A j \in at : i <= j

\* str.lower()
lower_char(c) ==
    IF c \in CharsOf(AsciiUpper)
    THEN Char(AsciiLower, CHOOSE i \in 1..Len(AsciiUpper) : Char(AsciiUpper, i) = c)
    ELSE c

RECURSIVE lower(_)
lower(s) == IF s = "" THEN "" ELSE lower_char(Head(s)) \o lower(Tail(s))

\* str(n) for n >= 0
RECURSIVE str(_)
str(n) == IF n < 10 THEN Char(AsciiDigits, n + 1)
          ELSE str(n \div 10) \o Char(AsciiDigits, (n % 10) + 1)

\* sep.join(parts)
RECURSIVE join(_, _)
join(sep, parts) ==
    IF parts = <<>> THEN ""
    ELSE IF Len(parts) = 1 THEN parts[1]
    ELSE parts[1] \o sep \o join(sep, Tail(parts))

\* str.split(sep)
RECURSIVE split(_, _)
split(s, sep) ==
    LET i == find(s, sep)
    IN  IF i = 0 THEN <<s>>
        ELSE <<SubSeq(s, 1, i - 1)>> \o split(SubSeq(s, i + Len(sep), Len(s)), sep)

\* str.split(sep, 1)
split_once(s, sep) ==
    LET i == find(s, sep)
    IN  IF i = 0 THEN <<s>>
        ELSE <<SubSeq(s, 1, i - 1), SubSeq(s, i + Len(sep), Len(s))>>

\* a < b for strings, by code point of the key characters
ord(c) == CHOOSE i \in 1..Len(KeyCharOrder) : Char(KeyCharOrder, i) = c

RECURSIVE str_lt(_, _)
str_lt(a, b) ==
    IF b = "" THEN FALSE
    ELSE IF a = "" THEN TRUE
    ELSE IF Head(a) = Head(b) THEN str_lt(Tail(a), Tail(b))
    ELSE ord(Head(a)) < ord(Head(b))

\* sorted(set(xs)) for a list of keys
RECURSIVE sorted_set(_)
sorted_set(S) ==
    IF S = {} THEN <<>>
    ELSE LET m == CHOOSE x \in S : \A y \in S \ {x} : str_lt(x, y)
         IN  <<m>> \o sorted_set(S \ {m})

Range(f) == {f[i] : i \in DOMAIN f}

-----------------------------------------------------------------------------
(***************************************************************************)
(* validate_openclaw_env.py                                                *)
(***************************************************************************)
PLACEHOLDER_PATTERNS ==
    {"changeme", "todo", "your-key", "your_token", "example", "replace-me", "placeholder"}

\* KEY_RE.match(key), KEY_RE = ^[A-Za-z_][A-Za-z0-9_]*$
\* (keys are stripped and come from one line, so they never end in "\n")
KEY_RE_match(key) ==
    /\ key # ""
    /\ Char(key, 1) \in CharsOf(AsciiUpper) \cup CharsOf(AsciiLower) \cup {"_"}
    /\ \A i \in 2..Len(key) :
          Char(key, i) \in CharsOf(AsciiUpper) \cup CharsOf(AsciiLower)
                             \cup CharsOf(AsciiDigits) \cup {"_"}

\* key in values
dict_has(d, key) == \E i \in 1..Len(d) : d[i][1] = key

\* values[key]
dict_get(d, key) == d[CHOOSE i \in 1..Len(d) : d[i][1] = key][2]

\* faulty variant of dict_set: the first value of a key is kept
dict_set_keep_first(d, key, value) ==
    IF dict_has(d, key) THEN d ELSE Append(d, <<key, value>>)

\* values[key] = value : a present key keeps its position, a new key goes last
dict_set(d, key, value) ==
    IF dict_has(d, key)
    THEN [i \in 1..Len(d) |-> IF d[i][1] = key THEN <<key, value>> ELSE d[i]]
    ELSE Append(d, <<key, value>>)

\* faulty variant of is_skipped: comments are not recognised
is_skipped_blank_only(line) == line = ""

\* not line or line.startswith("#")
is_skipped(line) == line = "" \/ startswith(line, "#")

\* faulty variant of add_malformed: the stripped text is recorded
add_malformed_stripped(mal, idx, raw_line, line) == Append(mal, <<idx, line>>)

\* malformed.append((idx, raw_line))
add_malformed(mal, idx, raw_line, line) == Append(mal, <<idx, raw_line>>)

\* faulty variant of add_duplicate: a key is recorded at most once
add_duplicate_once(dups, vals, key) ==
    IF dict_has(vals, key) /\ key \notin Range(dups) THEN Append(dups, key) ELSE dups

\* if key in values: duplicates.append(key)
add_duplicate(dups, vals, key) == IF dict_has(vals, key) THEN Append(dups, key) ELSE dups

\* key, value = line.split("=", 1)
split_key_value(line) == split_once(line, "=")

\* one iteration of the loop of parse_env over the state st = [values, duplicates, malformed]
parse_line(st, idx, raw_line) ==
    LET line == strip(raw_line)
    IN  IF is_skipped(line) THEN st
        ELSE IF ~contains(line, "=")
        THEN [st EXCEPT !.malformed = add_malformed(@, idx, raw_line, line)]
        ELSE LET kv    == split_key_value(line)
                 key   == strip(kv[1])
                 value == strip(kv[2])
             IN  IF ~KEY_RE_match(key)
                 THEN [st EXCEPT !.malformed = add_malformed(@, idx, raw_line, line)]
                 ELSE [st EXCEPT !.duplicates = add_duplicate(@, st.values, key),
                                 !.values = dict_set(@, key, value)]

is_placeholder(value) ==
    LET lowered == lower(value)
    IN  \E pattern \in PLACEHOLDER_PATTERNS : contains(lowered, pattern)

\* faulty variant of missing_keys: a key with an empty value counts as present
missing_keys_absent_only(req, vals) ==
    LET Test(key) == ~dict_has(vals, key)
    IN  SelectSeq(req, Test)

\* missing = [key for key in args.require if key not in values or not values[key]]
missing_keys(req, vals) ==
    LET Test(key) == ~dict_has(vals, key) \/ dict_get(vals, key) = ""
    IN  SelectSeq(req, Test)

\* placeholders = [key for key, value in values.items() if value and is_placeholder(value)]
placeholder_keys(vals) ==
    LET Test(kv) == kv[2] # "" /\ is_placeholder(kv[2])
        hits == SelectSeq(vals, Test)
    IN  [i \in 1..Len(hits) |-> hits[i][1]]

KeyItems(keys) == [i \in 1..Len(keys) |-> "  - " \o keys[i]]

malformed_block(mal) ==
    IF mal # <<>>
    THEN <<"\nMalformed lines:">>
         \o [i \in 1..Len(mal) |-> "  - line " \o str(mal[i][1]) \o ": " \o mal[i][2]]
    ELSE <<>>

duplicates_block(dups) ==
    IF dups # <<>>
    THEN <<"\nDuplicate keys:">> \o KeyItems(sorted_set(Range(dups)))
    ELSE <<>>

missing_block(miss) ==
    IF miss # <<>> THEN <<"\nMissing required keys:">> \o KeyItems(miss) ELSE <<>>

placeholders_block(ph) ==
    IF ph # <<>> THEN <<"\nPotential placeholder values detected:">> \o KeyItems(ph) ELSE <<>>

\* faulty variant of has_errors: placeholders do not fail the run
has_errors_ignoring_placeholders(mal, dups, miss, ph) ==
    mal # <<>> \/ dups # <<>> \/ miss # <<>>

has_errors(mal, dups, miss, ph) ==
    mal # <<>> \/ dups # <<>> \/ miss # <<>> \/ ph # <<>>

FailMessage == "\n[FAIL] Env validation failed."
PassMessage == "\n[OK] Env validation passed."

\* faulty variant of report: only the first non-empty category is printed
report_short_circuit(vals, mal, dups, miss, ph) ==
    <<"Parsed keys: " \o str(Len(vals))>>
    \o (IF mal # <<>> THEN malformed_block(mal)
        ELSE IF dups # <<>> THEN duplicates_block(dups)
        ELSE IF miss # <<>> THEN missing_block(miss)
        ELSE placeholders_block(ph))
    \o <<IF has_errors(mal, dups, miss, ph) THEN FailMessage ELSE PassMessage>>

\* the print() calls of main from "Parsed keys" to the verdict
report(vals, mal, dups, miss, ph) ==
    <<"Parsed keys: " \o str(Len(vals))>>
    \o malformed_block(mal)
    \o duplicates_block(dups)
    \o missing_block(miss)
    \o placeholders_block(ph)
    \o <<IF has_errors(mal, dups, miss, ph) THEN FailMessage ELSE PassMessage>>

validate_exit(mal, dups, miss, ph) == IF has_errors(mal, dups, miss, ph) THEN 1 ELSE 0

-----------------------------------------------------------------------------
(***************************************************************************)
(* plan_openclaw_rollout.py                                                *)
(***************************************************************************)
PROVIDER_LINKS ==
    ("fly"     :> "https://docs.openclaw.ai/install/fly") @@
    ("render"  :> "https://docs.openclaw.ai/install/render") @@
    ("railway" :> "https://docs.openclaw.ai/install/railway") @@
    ("hetzner" :> "https://docs.openclaw.ai/install/hetzner") @@
    ("gcp"     :> "https://docs.openclaw.ai/install/gcp")

CHANNEL_LINKS ==
    ("telegram" :> "https://docs.openclaw.ai/channels/telegram") @@
    ("discord"  :> "https://docs.openclaw.ai/channels/discord") @@
    ("slack"    :> "https://docs.openclaw.ai/channels/slack")

\* faulty variant of invalid_channels: validation stops at the first offender
invalid_channels_first_only(chs) ==
    LET Test(c) == c \notin DOMAIN CHANNEL_LINKS
        bad == SelectSeq(chs, Test)
    IN  IF bad = <<>> THEN <<>> ELSE <<bad[1]>>

\* invalid = [c for c in channels if c not in CHANNEL_LINKS]
invalid_channels(chs) ==
    LET Test(c) == c \notin DOMAIN CHANNEL_LINKS
    IN  SelectSeq(chs, Test)

\* channels = [c.strip().lower() for c in raw.split(",") if c.strip()]
normalized_channels(raw) ==
    LET Test(c) == strip(c) # ""
        kept == SelectSeq(split(raw, ","), Test)
    IN  [i \in 1..Len(kept) |-> lower(strip(kept[i]))]

\* parse_channels: ok = FALSE stands for the raised ValueError, error for its message
parse_channels(raw) ==
    LET chs     == normalized_channels(raw)
        invalid == invalid_channels(chs)
    IN  IF invalid # <<>>
        THEN [ok |-> FALSE, error |-> "Unsupported channels: " \o join(", ", invalid),
              channels |-> <<>>]
        ELSE [ok |-> TRUE, error |-> "", channels |-> chs]

ConfigureLine(channel) == "- [ ] Configure " \o channel \o ": " \o CHANNEL_LINKS[channel]
SmokeTestLine(channel) ==
    "- [ ] Send " \o channel \o " smoke-test message and verify response path."
NoChannelsLine == "- [ ] No channels selected for this rollout."

\* faulty variant of channel_lines: a repeated channel is rendered once
channel_lines_dedup(chs) ==
    LET F[i \in 0..Len(chs)] ==
            IF i = 0 THEN <<>>
            ELSE IF chs[i] \in {chs[j] : j \in 1..(i - 1)} THEN F[i - 1]
            ELSE F[i - 1] \o <<ConfigureLine(chs[i]), SmokeTestLine(chs[i])>>
    IN  IF chs # <<>> THEN F[Len(chs)] ELSE <<NoChannelsLine>>

\* faulty variant of channel_lines: an empty selection renders nothing
channel_lines_silent(chs) ==
    IF chs # <<>>
    THEN [i \in 1..(2 * Len(chs)) |->
            IF i % 2 = 1 THEN ConfigureLine(chs[(i + 1) \div 2])
                         ELSE SmokeTestLine(chs[i \div 2])]
    ELSE <<>>

\* the Channels section below its heading
channel_lines(chs) ==
    IF chs # <<>>
    THEN [i \in 1..(2 * Len(chs)) |->
            IF i % 2 = 1 THEN ConfigureLine(chs[(i + 1) \div 2])
                         ELSE SmokeTestLine(chs[i \div 2])]
    ELSE <<NoChannelsLine>>

\* (a TLA+ string cannot hold the backquote of the Preflight line; it is written ')
render_head(prov, env, now) ==
    << "# OpenClaw Rollout Plan",
       "",
       "- Generated: " \o now,
       "- Provider: " \o prov,
       "- Environment: " \o env,
       "",
       "## 1. Preflight",
       "- [ ] Confirm deployment scope and rollback owner.",
       "- [ ] Validate '.env' with 'scripts/validate_openclaw_env.py'.",
       "- [ ] Confirm secure secret storage in provider dashboard/CLI.",
       "",
       "## 2. Deployment",
       "- [ ] Follow official provider guide: " \o PROVIDER_LINKS[prov],
       "- [ ] Configure persistent state storage before first traffic.",
       "- [ ] Deploy and capture app URL + health checks.",
       "- [ ] Verify logs show healthy startup without secret leakage.",
       "",
       "## 3. Channels" >>

render_tail ==
    << "",
       "## 4. Agent + Memory",
       "- [ ] Confirm agent behavior constraints align with intended use.",
       "- [ ] Confirm memory persistence and restart behavior.",
       "",
       "## 5. Security",
       "- [ ] Apply references/openclaw-security-checklist.md and mark pass/fail.",
       "- [ ] Verify gateway protection and token rotation plan.",
       "",
       "## 6. Handover",
       "- [ ] Record deployment details, risks, and follow-ups.",
       "- [ ] Share operator runbook and escalation path.",
       "" >>

render(prov, chs, env, now) ==
    join("\n", render_head(prov, env, now) \o channel_lines(chs) \o render_tail)

-----------------------------------------------------------------------------
(***************************************************************************)
(* Inputs.                                                                 *)
(***************************************************************************)
SeqsUpTo(S, n) == UNION {[1..k -> S] : k \in 0..n}

\* lines an env file is made of
EnvLines ==
    { " \t",
      " # A=1",
      "not a valid line at all",
      "1BAD=x",
      " =x",
      " A = a=b ",
      "A=",
      "A=TODO",
      "B=https://Example.org" }

RequireKeys == {"A", "C"}
RequireInputs == SeqsUpTo(RequireKeys, MaxRequire)

EnvFileArg == "deploy/.env"

\* segments a --channels string is made of
ChannelSegments == {"telegram", " Discord ", "SLACK", "bogus1", " Bogus2", "", " "}
RawChannelInputs ==
    {join(",", segs) : segs \in SeqsUpTo(ChannelSegments, MaxSegments) \ {<<>>}}

Environments == {"prod", "staging"}
Timestamps == {"2026-01-01T00:00:00+00:00", "2026-06-30T23:59:59.999999+00:00"}

OutputArg == "plans/prod/rollout.md"
OutputParent == "plans/prod"

-----------------------------------------------------------------------------
(***************************************************************************)
(* The two programs.                                                       *)
(***************************************************************************)
EnvIdle ==
    /\ envExists = FALSE /\ require = <<>> /\ lines = <<>>
    /\ values = <<>> /\ duplicates = <<>> /\ malformed = <<>>
    /\ missing = <<>> /\ placeholders = <<>>

PlanIdle ==
    /\ provider = "" /\ rawChannels = "" /\ environment = ""
    /\ channels = <<>> /\ content = "" /\ dirs = {} /\ files = {}

InitValidate ==
    /\ tool = "validate"
    /\ pc = "start"
    /\ out = <<>>
    /\ exitCode = NoExit
    /\ envExists \in BOOLEAN
    /\ require \in RequireInputs
    /\ lines = <<>> /\ values = <<>> /\ duplicates = <<>> /\ malformed = <<>>
    /\ missing = <<>> /\ placeholders = <<>>
    /\ PlanIdle

InitPlan ==
    /\ tool = "plan"
    /\ pc = "start"
    /\ out = <<>>
    /\ exitCode = NoExit
    /\ provider \in DOMAIN PROVIDER_LINKS
    /\ rawChannels \in RawChannelInputs
    /\ environment \in Environments
    /\ channels = <<>> /\ content = "" /\ dirs = {} /\ files = {}
    /\ EnvIdle

Init == InitValidate \/ InitPlan

\* validate main: if not env_path.exists()
EnvNotFound ==
    /\ tool = "validate" /\ pc = "start" /\ ~envExists
    /\ out' = Append(out, "[ERROR] Env file not found: " \o EnvFileArg)
    /\ exitCode' = 1
    /\ pc' = "done"
    /\ UNCHANGED <<tool, envVars, planVars>>

\* validate main: parse_env is entered
EnvFound ==
    /\ tool = "validate" /\ pc = "start" /\ envExists
    /\ pc' = "parse"
    /\ UNCHANGED <<tool, envVars, planVars, out, exitCode>>

\* parse_env: the loop takes the next line of the file
ParseLine ==
    /\ tool = "validate" /\ pc = "parse"
    /\ Len(lines) < MaxLines
    /\ \E raw_line \in EnvLines :
         LET st == parse_line([values |-> values, duplicates |-> duplicates,
                               malformed |-> malformed], Len(lines) + 1, raw_line)
         IN  /\ lines' = Append(lines, raw_line)
             /\ values' = st.values
             /\ duplicates' = st.duplicates
             /\ malformed' = st.malformed
    /\ UNCHANGED <<tool, pc, envExists, require, missing, placeholders, planVars, out, exitCode>>

\* parse_env: the file has no more lines
ParseReturn ==
    /\ tool = "validate" /\ pc = "parse"
    /\ pc' = "report"
    /\ UNCHANGED <<tool, envVars, planVars, out, exitCode>>

\* validate main from the computation of missing to the return
Report ==
    /\ tool = "validate" /\ pc = "report"
    /\ LET miss == missing_keys(require, values)
           ph   == placeholder_keys(values)
       IN  /\ missing' = miss
           /\ placeholders' = ph
           /\ out' = out \o report(values, malformed, duplicates, miss, ph)
           /\ exitCode' = validate_exit(malformed, duplicates, miss, ph)
    /\ pc' = "done"
    /\ UNCHANGED <<tool, envExists, require, lines, values, duplicates, malformed, planVars>>

\* plan main: parse_channels raises, the except branch prints and returns 1
PlanChannelsError ==
    /\ tool = "plan" /\ pc = "start"
    /\ rawChannels # ""
    /\ ~parse_channels(rawChannels).ok
    /\ out' = Append(out, "[ERROR] " \o parse_channels(rawChannels).error)
    /\ exitCode' = 1
    /\ pc' = "done"
    /\ UNCHANGED <<tool, envVars, planVars>>

\* plan main: channels = parse_channels(args.channels) if args.channels else []
PlanChannelsOk ==
    /\ tool = "plan" /\ pc = "start"
    /\ rawChannels # "" => parse_channels(rawChannels).ok
    /\ channels' = IF rawChannels # "" THEN parse_channels(rawChannels).channels ELSE <<>>
    /\ pc' = "render"
    /\ UNCHANGED <<tool, envVars, provider, rawChannels, environment, content, dirs, files,
                   out, exitCode>>

\* plan main: content = render(...)
PlanRender ==
    /\ tool = "plan" /\ pc = "render"
    /\ \E now \in Timestamps : content' = render(provider, channels, environment, now)
    /\ pc' = "mkdir"
    /\ UNCHANGED <<tool, envVars, provider, rawChannels, environment, channels, dirs, files,
                   out, exitCode>>

\* plan main: output.parent.mkdir(parents=True, exist_ok=True)
PlanMkdir ==
    /\ tool = "plan" /\ pc = "mkdir"
    /\ dirs' = dirs \cup {OutputParent}
    /\ pc' = "write"
    /\ UNCHANGED <<tool, envVars, provider, rawChannels, environment, channels, content, files,
                   out, exitCode>>

\* plan main: output.write_text(content), the confirmation and return 0
PlanWrite ==
    /\ tool = "plan" /\ pc = "write"
    /\ files' = files \cup {[path |-> OutputArg, text |-> content]}
    /\ out' = Append(out, "[OK] Wrote rollout plan: " \o OutputArg)
    /\ exitCode' = 0
    /\ pc' = "done"
    /\ UNCHANGED <<tool, envVars, provider, rawChannels, environment, channels, content, dirs>>

NextValidate ==
    \/ EnvNotFound
    \/ EnvFound
    \/ ParseLine
    \/ ParseReturn
    \/ Report

NextPlan ==
    \/ PlanChannelsError
    \/ PlanChannelsOk
    \/ PlanRender
    \/ PlanMkdir
    \/ PlanWrite

Next == NextValidate \/ NextPlan

\* one run of either tool
Spec == Init /\ [][Next]_vars
\* one run of validate_openclaw_env.py
SpecValidate == InitValidate /\ [][NextValidate]_vars
\* one run of plan_openclaw_rollout.py
SpecPlan == InitPlan /\ [][NextPlan]_vars

-----------------------------------------------------------------------------
(***************************************************************************)
(* Vocabulary of the properties: what a line of the env file is, read off  *)
(* the text of the line alone.                                             *)
(***************************************************************************)
Count(seq, x) == Cardinality({i \in DOMAIN seq : seq[i] = x})
Last(seq) == seq[Len(seq)]

Letters == CharsOf(AsciiUpper \o AsciiLower)
Digits  == CharsOf(AsciiDigits)

\* letter or underscore, then letters, digits, underscores
KeyGrammar(k) ==
    /\ Len(k) >= 1
    /\ Head(k) \in Letters \cup {"_"}
    /\ CharsOf(Tail(k)) \subseteq Letters \cup Digits \cup {"_"}

IsBlank(raw)   == strip(raw) = ""
IsComment(raw) == ~IsBlank(raw) /\ Head(strip(raw)) = "#"
IsData(raw)    == ~IsBlank(raw) /\ ~IsComment(raw)

FirstEq(raw) == find(strip(raw), "=")
\* trimmed text before, and after, the first "=" of a line that has one
KeyText(raw)   == strip(SubSeq(strip(raw), 1, FirstEq(raw) - 1))
ValueText(raw) == strip(SubSeq(strip(raw), FirstEq(raw) + 1, Len(strip(raw))))

IsWellFormed(raw) == IsData(raw) /\ FirstEq(raw) > 0 /\ KeyGrammar(KeyText(raw))
IsMalformed(raw)  == IsData(raw) /\ (FirstEq(raw) = 0 \/ ~KeyGrammar(KeyText(raw)))

\* the classification of every line a file may hold, computed once
LineKind ==
    [raw \in EnvLines |->
        IF IsBlank(raw) THEN "blank"
        ELSE IF IsComment(raw) THEN "comment"
        ELSE IF IsWellFormed(raw) THEN "wellformed"
        ELSE IF IsMalformed(raw) THEN "malformed"
        ELSE "none"]
LineKey   == [raw \in EnvLines |-> IF IsWellFormed(raw) THEN KeyText(raw) ELSE ""]
LineValue == [raw \in EnvLines |-> IF IsWellFormed(raw) THEN ValueText(raw) ELSE ""]

WellFormedAt(i) == LineKind[lines[i]] = "wellformed"
MalformedAt(i)  == LineKind[lines[i]] = "malformed"

\* positions, in the lines read so far, of the well-formed lines carrying key k
Occurrences(k) == {i \in DOMAIN lines : WellFormedAt(i) /\ LineKey[lines[i]] = k}
WellFormedKeys == {LineKey[lines[i]] : i \in {j \in DOMAIN lines : WellFormedAt(j)}}
Max(S) == CHOOSE i \in S : \A j \in S : j <= i

Parsing  == tool = "validate" /\ pc \in {"parse", "report", "done"}
Reported == tool = "validate" /\ pc = "done" /\ envExists

AllCategoriesEmpty ==
    malformed = <<>> /\ duplicates = <<>> /\ missing = <<>> /\ placeholders = <<>>

\* C1: when the env file exists, main returns 0 with the "validation passed"
\* message iff the four diagnostic categories are all empty, and returns 1
\* with the "validation failed" message in every other case.
C1_PassIffAllEmpty ==
    Reported =>
        /\ exitCode \in {0, 1}
        /\ (exitCode = 0 /\ contains(Last(out), "validation passed")) <=> AllCategoriesEmpty
        /\ ~AllCategoriesEmpty =>
              (exitCode = 1 /\ contains(Last(out), "validation failed"))
        /\ Count(out, PassMessage) + Count(out, FailMessage) = 1

\* C1 witness: a run that passes with a required key present, next to lines
\* that are skipped
C1_Witness ==
    /\ Reported /\ exitCode = 0
    /\ require # <<>> /\ Len(lines) >= 2 /\ values # <<>>

\* C2: parse_env is last-write-wins: every key of a well-formed line has
\* exactly one entry in the mapping, whose value is the trimmed text after
\* the first "=" of the last well-formed line carrying the key; lines that
\* are malformed, comments or blank contribute nothing to the mapping.
C2_LastWriteWins ==
    Parsing =>
        /\ \A k \in WellFormedKeys :
              /\ Cardinality({i \in DOMAIN values : values[i][1] = k}) = 1
              /\ dict_get(values, k) = LineValue[lines[Max(Occurrences(k))]]
        /\ {values[i][1] : i \in DOMAIN values} = WellFormedKeys

\* C2 witness: key A written twice, the later value holding an "=", with a
\* malformed line and a comment in the file
C2_Witness ==
    /\ Parsing
    /\ Cardinality(Occurrences("A")) >= 2
    /\ dict_has(values, "A") /\ dict_get(values, "A") = "a=b"
    /\ LineValue[lines[CHOOSE i \in Occurrences("A") : TRUE]] # "a=b"
    /\ \E i \in DOMAIN lines : MalformedAt(i)

\* the items printed under a header of the report, up to the next header
\* or the verdict
BlockItems(header) ==
    LET h    == CHOOSE i \in DOMAIN out : out[i] = header
        stop == CHOOSE j \in (h + 1)..Len(out) :
                   /\ Head(out[j]) = "\n"
                   /\ \A m \in (h + 1)..(j - 1) : Head(out[m]) # "\n"
    IN  SubSeq(out, h + 1, stop - 1)

DuplicatedKeys == {k \in WellFormedKeys : Cardinality(Occurrences(k)) >= 2}

\* C3: a key on N >= 1 well-formed lines is in the duplicates list exactly
\* N - 1 times, and the "Duplicate keys" block of the report lists each key
\* with N >= 2 exactly once, in sorted order.
C3_DuplicateCounts ==
    /\ Parsing =>
          /\ \A k \in WellFormedKeys : Count(duplicates, k) = Cardinality(Occurrences(k)) - 1
          /\ Range(duplicates) \subseteq WellFormedKeys
    /\ (Reported /\ DuplicatedKeys # {}) =>
          /\ Count(out, "\nDuplicate keys:") = 1
          /\ LET items == BlockItems("\nDuplicate keys:")
             IN  /\ Range(items) = {"  - " \o k : k \in DuplicatedKeys}
                 /\ Len(items) = Cardinality(DuplicatedKeys)
                 /\ \A i \in 1..(Len(items) - 1) :
                       str_lt(SubSeq(items[i], 5, Len(items[i])),
                              SubSeq(items[i + 1], 5, Len(items[i + 1])))
    /\ (Reported /\ DuplicatedKeys = {}) => Count(out, "\nDuplicate keys:") = 0

\* C3 witness: B is duplicated before A, so the list is <<B, A>> and the
\* report has to sort it
C3_Witness ==
    /\ Reported
    /\ duplicates = <<"B", "A">>
    /\ BlockItems("\nDuplicate keys:") = <<"  - A", "  - B">>

\* C4: a malformed line never aborts parse_env: the malformed list is
\* exactly the non-blank, non-comment lines without "=" or with a key
\* outside the key grammar, each with its 1-based line number and its
\* untrimmed text, and every well-formed line after a malformed one is
\* still parsed into the mapping.
C4_MalformedRecorded ==
    Parsing =>
        /\ LET bad == {i \in DOMAIN lines : MalformedAt(i)}
           IN  /\ Len(malformed) = Cardinality(bad)
               /\ Range(malformed) = {<<i, lines[i]>> : i \in bad}
        /\ \A i, j \in DOMAIN lines :
              (i < j /\ MalformedAt(i) /\ WellFormedAt(j))
                  => /\ dict_has(values, LineKey[lines[j]])
                     /\ j = Max(Occurrences(LineKey[lines[j]]))
                           => dict_get(values, LineKey[lines[j]]) = LineValue[lines[j]]

\* C4 witness: an empty key with leading whitespace, a line without "=" and
\* a key starting with a digit, followed by a well-formed line
C4_Witness ==
    /\ Parsing
    /\ malformed = << <<1, " =x">>, <<2, "not a valid line at all">>, <<3, "1BAD=x">> >>
    /\ Len(lines) = 4 /\ WellFormedAt(4)
    /\ Len(values) = 1

\* C5: a required key is reported missing iff it is absent from the mapping
\* or its stored value is empty; a key whose line is KEY= is neither in the
\* malformed list nor in the placeholder list.
C5_MissingIffAbsentOrEmpty ==
    Reported =>
        /\ \A k \in Range(require) :
              (k \in Range(missing)) <=> (~dict_has(values, k) \/ dict_get(values, k) = "")
        /\ Range(missing) \subseteq Range(require)
        /\ \A i \in DOMAIN lines :
              (WellFormedAt(i) /\ LineValue[lines[i]] = "")
                  => /\ \A m \in DOMAIN malformed : malformed[m][1] # i
                     /\ dict_get(values, LineKey[lines[i]]) = ""
                           => LineKey[lines[i]] \notin Range(placeholders)

\* C5 witness: the required key A is set by the line A= and reported missing
\* while nothing is malformed or a placeholder
C5_Witness ==
    /\ Reported
    /\ require = <<"A">> /\ missing = <<"A">>
    /\ dict_has(values, "A") /\ dict_get(values, "A") = ""
    /\ malformed = <<>> /\ placeholders = <<>>
    /\ exitCode = 1

ReportHeaders ==
    << "\nMalformed lines:", "\nDuplicate keys:", "\nMissing required keys:",
       "\nPotential placeholder values detected:" >>

\* number of items the report owes to each category, in the order of ReportHeaders
CategorySizes ==
    << Len(malformed), Cardinality(Range(duplicates)), Len(missing), Len(placeholders) >>

HeaderPos(c) == CHOOSE i \in DOMAIN out : out[i] = ReportHeaders[c]

\* C7: the report has no short-circuit and a fixed order: after the "Parsed
\* keys" line and before the verdict, every non-empty category has its block,
\* the blocks come in the order malformed lines, duplicate keys, missing
\* required keys, placeholders, and an empty category prints nothing.
C7_ReportOrder ==
    Reported =>
        /\ startswith(out[1], "Parsed keys: ")
        /\ Last(out) \in {PassMessage, FailMessage}
        /\ \A c \in 1..4 :
              Count(out, ReportHeaders[c]) = (IF CategorySizes[c] > 0 THEN 1 ELSE 0)
        /\ \A c \in 1..4 :
              CategorySizes[c] > 0 =>
                  /\ 1 < HeaderPos(c) /\ HeaderPos(c) < Len(out)
                  /\ Len(BlockItems(ReportHeaders[c])) = CategorySizes[c]
        /\ \A c, d \in 1..4 :
              (c < d /\ CategorySizes[c] > 0 /\ CategorySizes[d] > 0)
                  => HeaderPos(c) < HeaderPos(d)
        /\ missing # <<>> => BlockItems(ReportHeaders[3]) = [i \in DOMAIN missing |-> "  - " \o missing[i]]
        /\ placeholders # <<>> =>
              BlockItems(ReportHeaders[4]) = [i \in DOMAIN placeholders |-> "  - " \o placeholders[i]]

\* C7 witness: a report in which all four categories are non-empty
C7_Witness ==
    /\ Reported
    /\ malformed # <<>> /\ duplicates # <<>> /\ missing # <<>> /\ placeholders # <<>>
    /\ Len(out) = 10

\* C10: parse_env classifies every line exactly once: after any prefix of
\* the file, the sizes of the mapping, the duplicates list and the malformed
\* list add up to the number of lines that are neither blank nor comments;
\* a comment is skipped even when it holds "="; no line is both malformed
\* and stored; the line numbers of the malformed list increase strictly.
C10_EveryLineClassifiedOnce ==
    Parsing =>
        /\ Len(values) + Len(duplicates) + Len(malformed)
              = Cardinality({i \in DOMAIN lines : LineKind[lines[i]] \notin {"blank", "comment"}})
        /\ \A m \in DOMAIN malformed :
              /\ malformed[m][1] \in DOMAIN lines
              /\ LineKind[lines[malformed[m][1]]] \notin {"blank", "comment", "wellformed"}
        /\ \A m, n \in DOMAIN malformed : m < n => malformed[m][1] < malformed[n][1]

\* C10 witness: a comment holding "=" between two malformed lines, then a
\* well-formed line
C10_Witness ==
    /\ Parsing
    /\ Len(lines) = 4
    /\ lines[2] = " # A=1" /\ contains(lines[2], "=") /\ LineKind[lines[2]] = "comment"
    /\ Len(malformed) = 2 /\ Len(values) = 1 /\ duplicates = <<>>

-----------------------------------------------------------------------------
(***************************************************************************)
(* Vocabulary of the properties of the Checklist Generator.                *)
(***************************************************************************)
SupportedChannels == {"telegram", "discord", "slack"}

\* the identifiers of a --channels string: trimmed, lower-cased, empty ones dropped
IdentifiersOf(raw) ==
    LET segs == split(raw, ",")
        F[i \in 0..Len(segs)] ==
            IF i = 0 THEN <<>>
            ELSE IF strip(segs[i]) = "" THEN F[i - 1]
            ELSE Append(F[i - 1], lower(strip(segs[i])))
    IN  F[Len(segs)]

Identifiers == [raw \in RawChannelInputs |-> IdentifiersOf(raw)]

Offending ==
    LET Test(c) == c \notin SupportedChannels
    IN  SelectSeq(Identifiers[rawChannels], Test)

Planning == tool = "plan"
Written  == tool = "plan" /\ pc = "done" /\ exitCode = 0

\* C6: channel validation is batch and precedes all output: with an
\* unsupported identifier the run ends with exit code 1 and one error naming
\* every offender in input order, and never creates a directory or a file;
\* with none, no error is raised and the identifiers are taken in input order.
C6_BatchChannelValidation ==
    Planning =>
        /\ Offending # <<>> =>
              /\ dirs = {} /\ files = {} /\ content = ""
              /\ pc \in {"start", "done"}
              /\ pc = "done" =>
                    /\ exitCode = 1
                    /\ out = <<"[ERROR] Unsupported channels: " \o join(", ", Offending)>>
        /\ Offending = <<>> =>
              /\ exitCode # 1
              /\ pc # "start" => channels = Identifiers[rawChannels]
              /\ \A i \in DOMAIN out : ~startswith(out[i], "[ERROR]")

\* C6 witness: a supported channel followed by two unsupported ones
C6_Witness ==
    /\ Planning /\ pc = "done" /\ exitCode = 1
    /\ rawChannels = "telegram,bogus1, Bogus2"
    /\ Offending = <<"bogus1", "bogus2">>

RECURSIVE Ascending(_)
Ascending(S) ==
    IF S = {} THEN <<>>
    ELSE LET m == CHOOSE i \in S : \A j \in S : i <= j
         IN  <<m>> \o Ascending(S \ {m})

\* the lines of a text
LinesOf(text) ==
    LET nl  == Ascending({i \in 1..Len(text) : Char(text, i) = "\n"})
        cut == <<0>> \o nl \o <<Len(text) + 1>>
    IN  [k \in 1..(Len(nl) + 1) |-> SubSeq(text, cut[k] + 1, cut[k + 1] - 1)]

\* the lines of the rollout plan on disk
PlanLines == LinesOf((CHOOSE f \in files : f.path = OutputArg).text)

IsConfigureLineFor(l, c) == startswith(l, "- [ ] Configure " \o c \o ": ")
IsSmokeTestLineFor(l, c) == startswith(l, "- [ ] Send " \o c \o " smoke-test")
IsChannelLine(l) ==
    \E c \in SupportedChannels : IsConfigureLineFor(l, c) \/ IsSmokeTestLineFor(l, c)

\* C8: for a non-empty channel list C the document holds exactly 2 * len(C)
\* channel checklist lines: per entry a configure line immediately followed
\* by a smoke-test line, in the order of C, repeated entries included.
C8_TwoLinesPerChannel ==
    (Written /\ channels # <<>>) =>
        LET doc  == PlanLines
            at   == {i \in DOMAIN doc : IsChannelLine(doc[i])}
            base == (CHOOSE i \in at : \A j \in at : i <= j) - 1
        IN  /\ Cardinality(at) = 2 * Len(channels)
            /\ \A k \in DOMAIN channels :
                  /\ IsConfigureLineFor(doc[base + 2 * k - 1], channels[k])
                  /\ IsSmokeTestLineFor(doc[base + 2 * k], channels[k])
            /\ doc[base] = "## 3. Channels"

\* C8 witness: a plan written for a list that repeats a channel
C8_Witness ==
    /\ Written
    /\ channels = <<"slack", "telegram", "slack">>

MentionsConfigure(l)  == contains(l, "Configure")
MentionsNoChannels(l) == contains(l, "No channels selected")

====
